---- MODULE Spec2Model ----
(***************************************************************************)
(* A model of the reranker package (src/reranker): the Record data type,   *)
(* the distance functions, the ranking strategies of ranker.py and the     *)
(* ReRanker pipeline.                                                      *)
(*                                                                         *)
(* Python values are modelled as follows.                                  *)
(*   - Optional values (a field that may be None, a list that may be None) *)
(*     are None == <<>> or Some(x) == <<x>>.                               *)
(*   - Floats are exact rationals <<n, d>> with d > 0 in lowest terms;     *)
(*     -float("inf") is NegInf.  Inputs are chosen so that every square    *)
(*     root the code takes is an integer; rounding is not modelled.        *)
(*   - A call either returns a value or raises: Return(v), Raise(e).       *)
(*   - List positions are 1-based here and 0-based in the code; a Record's *)
(*     id is the 0-based position the caller gave it.                      *)
(***************************************************************************)
EXTENDS Integers, Sequences, FiniteSets, TLC

(***************************************************************************)
(* Bounds of the model.                                                    *)
(***************************************************************************)
MaxDocs == 3

(***************************************************************************)
(* Optional values and call outcomes.                                      *)
(***************************************************************************)
None == <<>>

Some(x) == <<x>>

Return(v) == [kind |-> "return", value |-> v]

Raise(e) == [kind |-> "raise", error |-> e]

Pending == [kind |-> "pending"]

(***************************************************************************)
(* Float arithmetic, as exact rationals.                                   *)
(***************************************************************************)
Abs(a) == IF a < 0 THEN -a ELSE a

RECURSIVE GCD(_, _)
GCD(a, b) == IF b = 0 THEN a ELSE GCD(b, a % b)

Rat(n, d) ==
    LET s == IF d < 0 THEN -1 ELSE 1
        g == GCD(Abs(n), Abs(d))
    IN  <<(s * n) \div g, (s * d) \div g>>

Zero == <<0, 1>>

One == <<1, 1>>

NegInf == <<-1, 0>>

RatAdd(x, y) == Rat(x[1] * y[2] + y[1] * x[2], x[2] * y[2])

RatSub(x, y) == Rat(x[1] * y[2] - y[1] * x[2], x[2] * y[2])

RatMul(x, y) == Rat(x[1] * y[1], x[2] * y[2])

\* x < y for a rational x and a rational or -infinity y.
RatLt(x, y) == IF y = NegInf THEN FALSE ELSE x[1] * y[2] < y[1] * x[2]

\* Python's max(iterable): the first maximal element.
RECURSIVE RatMax(_)
RatMax(s) ==
    IF Len(s) = 1 THEN s[1]
    ELSE LET m == RatMax(Tail(s))
         IN  IF RatLt(s[1], m) THEN m ELSE s[1]

\* list.index(v): the first position holding v.
IndexOf(s, v) == CHOOSE i \in 1..Len(s) : s[i] = v /\ \A j \in 1..(i - 1) : s[j] # v

\* A variant of PopAt that always drops the first element.
PopFirst(s, i) == Tail(s)

\* list.pop(i) leaves the list without position i.
PopAt(s, i) == [j \in 1..(Len(s) - 1) |-> IF j < i THEN s[j] ELSE s[j + 1]]

(***************************************************************************)
(* spec.py: Record.  Only the fields a strategy reads are kept.            *)
(***************************************************************************)
Record(id) ==
    [id |-> id, text |-> id, vector |-> None, score |-> 1, vector_sim |-> 1,
     title_sim |-> 1, content_bm25 |-> 1, title_bm25 |-> 1,
     updated_at |-> None, boost |-> 1]

(***************************************************************************)
(* distance.py.  Vectors are integer tuples of one dimension.              *)
(***************************************************************************)
RECURSIVE DotSum(_, _, _)
DotSum(x, y, i) == IF i = 0 THEN 0 ELSE x[i] * y[i] + DotSum(x, y, i - 1)

dot(x, y) == DotSum(x, y, Len(x))

\* np.linalg.norm on a vector whose squared length is a perfect square.
norm(x) == CHOOSE r \in 0..dot(x, x) : r * r = dot(x, x)

euclidean(x, y) == Rat(norm([i \in 1..Len(x) |-> x[i] - y[i]]), 1)

cosine(x, y) == RatSub(One, Rat(dot(x, y), norm(x) * norm(y)))

dot_product(x, y) == Rat(dot(x, y), 1)

Distance(name, x, y) ==
    CASE name = "EUCLIDEAN" -> euclidean(x, y)
      [] name = "COSINE" -> cosine(x, y)
      [] name = "DOT_PRODUCT" -> dot_product(x, y)

(***************************************************************************)
(* Score values.  A score is c / b^e: a rational c divided by an integer   *)
(* base raised to a rational exponent (b = 1 for a plain rational).  This  *)
(* keeps TimeDecayRanker's (2 + hours) ** decay_rate exact.                *)
(***************************************************************************)
Plain(c) == [c |-> c, b |-> 1, e |-> Zero]

\* score / (base ** rate)
DivPow(c, base, rate) == [c |-> c, b |-> base, e |-> rate]

\* The product of two scores, at most one of which has a base other than 1.
ValMul(x, y) ==
    [c |-> RatMul(x.c, y.c), b |-> x.b * y.b, e |-> IF x.b = 1 THEN y.e ELSE x.e]

(***************************************************************************)
(* ranker.py: the constructors.                                            *)
(***************************************************************************)
CrossEncoderClient(top_k) == [kind |-> "CrossEncoderClient", top_k |-> top_k]

CohereClient(top_k) == [kind |-> "CohereClient", top_k |-> top_k]

DiverseRanker(lambda_const, threshold, distance) ==
    [kind |-> "DiverseRanker", lambda_const |-> lambda_const,
     distance |-> distance, threshold |-> threshold]

TimeDecayRanker(decay_rate) == [kind |-> "TimeDecayRanker", decay_rate |-> decay_rate]

KeywordBoost(title_content_ratio) ==
    [kind |-> "KeywordBoost", title_content_ratio |-> title_content_ratio]

VectorBoost(title_content_ratio) ==
    [kind |-> "VectorBoost", title_content_ratio |-> title_content_ratio]

\* A variant of HybridRanker that leaves the decay rate at its default.
HybridRankerDefaultDecay(decay_rate, title_content_ratio) ==
    [kind |-> "HybridRanker", decay_ranker |-> TimeDecayRanker(<<9, 5>>),
     vector_ranker |-> VectorBoost(title_content_ratio)]

HybridRanker(decay_rate, title_content_ratio) ==
    [kind |-> "HybridRanker", decay_ranker |-> TimeDecayRanker(decay_rate),
     vector_ranker |-> VectorBoost(title_content_ratio)]

\* The constructor call a configuration [cls, ...arguments] stands for.
Construct(cfg) ==
    CASE cfg.cls = "CrossEncoderClient" -> CrossEncoderClient(cfg.top_k)
      [] cfg.cls = "CohereClient" -> CohereClient(cfg.top_k)
      [] cfg.cls = "DiverseRanker" ->
            DiverseRanker(cfg.lambda_const, cfg.threshold, cfg.distance)
      [] cfg.cls = "TimeDecayRanker" -> TimeDecayRanker(cfg.decay_rate)
      [] cfg.cls = "KeywordBoost" -> KeywordBoost(cfg.title_content_ratio)
      [] cfg.cls = "VectorBoost" -> VectorBoost(cfg.title_content_ratio)
      [] cfg.cls = "HybridRanker" ->
            HybridRanker(cfg.decay_rate, cfg.title_content_ratio)

(***************************************************************************)
(* ranker.py: what the strategies share.  The argument d of a strategy is  *)
(* the Python value it is handed: Some(list of Records), or None when an   *)
(* earlier stage returned None.                                            *)
(***************************************************************************)
\* `not docs`: None and the empty list are falsy.
Falsy(d) == d = None \/ d[1] = <<>>

\* scores.__getitem__(record): a list is indexed by integers and slices, and
\* a Record is neither.
ScoresGetItem(scores, record) == Raise("TypeError")

\* docs.sort(key=scores.__getitem__, reverse=True): the key of every element
\* is taken first; when that raises, the list is left as it was.  A sort that
\* succeeds sorts in place and returns None.
ListSort(list, scores) ==
    IF list = <<>> THEN Return(None) ELSE ScoresGetItem(scores, list[1])

\* value[:top_k]
SliceTo(value, top_k) ==
    IF value = None THEN Raise("TypeError")
    ELSE Return(Some(SubSeq(value[1], 1,
                            IF top_k < Len(value[1]) THEN top_k ELSE Len(value[1]))))

\* The result of a strategy's rank: [out, scored, evals], where out is what
\* rank returns or raises, scored is what its score call returned or raised
\* (Pending when score was not called), and evals counts the per-document
\* scores or distances computed on the way.
Result(out, scored, evals) == [out |-> out, scored |-> scored, evals |-> evals]

(***************************************************************************)
(* ranker.py: TimeDecayRanker.  updated_at holds the whole hours between   *)
(* the timestamp and now.                                                  *)
(***************************************************************************)
\* (datetime.now() - record.updated_at).seconds / 3600.0: timedelta.seconds
\* is the seconds within the last day of the difference.
HoursSince(age) == ((age * 3600) % 86400) \div 3600

\* The number of leading records of a list that carry updated_at.
RECURSIVE Timed(_)
Timed(list) ==
    IF list = <<>> \/ list[1].updated_at = None THEN 0 ELSE 1 + Timed(Tail(list))

TimeDecayScore(self, query, d) ==
    IF Falsy(d) \/ d[1][1].updated_at = None
    THEN [out |-> Raise("ValueError"), evals |-> 0]
    ELSE IF Timed(d[1]) < Len(d[1])
    THEN [out |-> Raise("TypeError"), evals |-> Timed(d[1])]
    ELSE [out |-> Return([i \in 1..Len(d[1]) |->
                    DivPow(Rat(d[1][i].score, 1),
                           2 + HoursSince(d[1][i].updated_at[1]),
                           self.decay_rate)]),
          evals |-> Len(d[1])]

TimeDecayRank(self, query, d) ==
    LET s == TimeDecayScore(self, query, d)
    IN  Result(IF s.out.kind = "raise" THEN s.out ELSE ListSort(d[1], s.out.value),
               s.out, s.evals)

(***************************************************************************)
(* ranker.py: KeywordBoost and VectorBoost.                                *)
(***************************************************************************)
\* (title * ratio + content * (1 - ratio)) * boost
Blend(title, content, ratio, boost) ==
    RatMul(RatAdd(RatMul(Rat(title, 1), ratio),
                  RatMul(Rat(content, 1), RatSub(One, ratio))),
           Rat(boost, 1))

KeywordBoostScore(self, query, d) ==
    IF d = None THEN [out |-> Raise("TypeError"), evals |-> 0]
    ELSE [out |-> Return([i \in 1..Len(d[1]) |->
                    IF d[1][1].title_bm25 # 0
                    THEN Plain(Blend(d[1][i].title_bm25, d[1][i].content_bm25,
                                     self.title_content_ratio, d[1][i].boost))
                    ELSE Plain(Rat(d[1][i].content_bm25 * d[1][i].boost, 1))]),
          evals |-> Len(d[1])]

KeywordBoostRank(self, query, d) ==
    LET s == KeywordBoostScore(self, query, d)
    IN  Result(IF s.out.kind = "raise" THEN s.out ELSE ListSort(d[1], s.out.value),
               s.out, s.evals)

VectorBoostScore(self, query, d) ==
    IF d = None THEN [out |-> Raise("TypeError"), evals |-> 0]
    ELSE [out |-> Return([i \in 1..Len(d[1]) |->
                    IF d[1][1].title_sim # 0
                    THEN Plain(Blend(d[1][i].title_sim, d[1][i].vector_sim,
                                     self.title_content_ratio, d[1][i].boost))
                    ELSE Plain(Rat(d[1][i].vector_sim * d[1][i].boost, 1))]),
          evals |-> Len(d[1])]

VectorBoostRank(self, query, d) ==
    LET s == VectorBoostScore(self, query, d)
    IN  Result(IF s.out.kind = "raise" THEN s.out ELSE ListSort(d[1], s.out.value),
               s.out, s.evals)

(***************************************************************************)
(* ranker.py: HybridRanker.                                                *)
(***************************************************************************)
\* [decay * vector for decay, vector in zip(decay_score, vector_score)]
ZipProduct(decay_score, vector_score) ==
    [i \in 1..(IF Len(decay_score) < Len(vector_score)
               THEN Len(decay_score) ELSE Len(vector_score)) |->
        ValMul(decay_score[i], vector_score[i])]

HybridScore(self, query, d) ==
    LET decay == TimeDecayScore(self.decay_ranker, query, d)
        vector == VectorBoostScore(self.vector_ranker, query, d)
    IN  IF decay.out.kind = "raise" THEN decay
        ELSE IF vector.out.kind = "raise"
        THEN [out |-> vector.out, evals |-> decay.evals + vector.evals]
        ELSE [out |-> Return(ZipProduct(decay.out.value, vector.out.value)),
              evals |-> decay.evals + vector.evals]

HybridRank(self, query, d) ==
    LET s == HybridScore(self, query, d)
    IN  Result(IF s.out.kind = "raise" THEN s.out ELSE ListSort(d[1], s.out.value),
               s.out, s.evals)

(***************************************************************************)
(* ranker.py: the two remote strategies.  resp is what the backend call    *)
(* did: Raise(e) for a failed call, Return(scores) otherwise.              *)
(***************************************************************************)
\* top_k = len(docs) if self.top_k == 0 else self.top_k
TopK(self, list) == IF self.top_k = 0 THEN Len(list) ELSE self.top_k

RemoteRank(self, query, d, resp) ==
    IF d = None THEN Result(Raise("TypeError"), Pending, 0)
    ELSE IF resp.kind = "raise" THEN Result(resp, resp, 0)
    ELSE LET sorted == ListSort(d[1], resp.value)
         IN  Result(IF sorted.kind = "raise" THEN sorted
                    ELSE SliceTo(sorted.value, TopK(self, d[1])),
                    resp, 0)

CrossEncoderRank(self, query, d, resp) == RemoteRank(self, query, d, resp)

CohereRank(self, query, d, resp) == RemoteRank(self, query, d, resp)

(***************************************************************************)
(* ranker.py: DiverseRanker (maximal marginal relevance).                  *)
(***************************************************************************)
\* The distance calls of the pre-computation for document i, in the order
\* the code makes them: (docs[i], docs[j]) for each j after i, then
\* (query, docs[i]).
RowCalls(query, list, i) ==
    [m \in 1..(Len(list) - i + 1) |->
        IF m <= Len(list) - i THEN <<list[i].vector, list[i + m].vector>>
        ELSE <<query.vector, list[i].vector>>]

RECURSIVE PrecomputeCalls(_, _, _)
PrecomputeCalls(query, list, i) ==
    IF i > Len(list) THEN <<>>
    ELSE RowCalls(query, list, i) \o PrecomputeCalls(query, list, i + 1)

\* The number of leading distance calls that succeed: a call on a vector
\* that is None raises TypeError.
RECURSIVE Computed(_)
Computed(distanceCalls) ==
    IF distanceCalls = <<>> \/ distanceCalls[1][1] = None \/ distanceCalls[1][2] = None
    THEN 0
    ELSE 1 + Computed(Tail(distanceCalls))

\* similarity[f"{c}_{s}"], stored for i < j under both "i_j" and "j_i".
Similarity(self, list, c, s) ==
    IF c < s THEN Distance(self.distance, list[c].vector[1], list[s].vector[1])
    ELSE Distance(self.distance, list[s].vector[1], list[c].vector[1])

\* similarity[f"query_{c}"]
SimilarityQuery(self, query, list, c) ==
    Distance(self.distance, query.vector[1], list[c].vector[1])

\* The list `scores` of one iteration of the while loop.
MMRScores(self, query, list, cands, sel) ==
    [m \in 1..Len(cands) |->
        LET sim_q == SimilarityQuery(self, query, list, cands[m])
            sim_d == IF sel # <<>>
                     THEN RatMax([t \in 1..Len(sel) |->
                                     Similarity(self, list, cands[m], sel[t])])
                     ELSE Zero
        IN  RatSub(RatMul(self.lambda_const, sim_q),
                   RatMul(RatSub(One, self.lambda_const), sim_d))]

\* A variant of StopsEarly that also stops at mmr = threshold.
StopsEarlyInclusive(mmr, threshold) == ~RatLt(threshold, mmr)

\* if mmr < self.threshold: break
StopsEarly(mmr, threshold) == RatLt(mmr, threshold)

\* max_idx = scores.index(max(scores))
MaxIdx(scores) == IndexOf(scores, RatMax(scores))

\* What the pre-computation of DiverseRanker.rank does on a list whose
\* first document carries a vector: Pending when every distance is computed.
Precompute(self, query, list) ==
    LET distanceCalls == PrecomputeCalls(query, list, 1)
    IN  Result(IF Computed(distanceCalls) < Len(distanceCalls)
               THEN Raise("TypeError") ELSE Pending,
               Pending, Computed(distanceCalls))

\* A variant of DiverseBegin that checks every document for a vector.
DiverseBeginChecksAll(self, query, d) ==
    IF Falsy(d) \/ \E i \in 1..Len(d[1]) : d[1][i].vector = None
    THEN Result(Raise("ValueError"), Pending, 0)
    ELSE Precompute(self, query, d[1])

\* DiverseRanker.rank up to the while loop: the check of the first
\* document, the pre-computation, and the loop's initial state.
DiverseBegin(self, query, d) ==
    IF Falsy(d) \/ d[1][1].vector = None
    THEN Result(Raise("ValueError"), Pending, 0)
    ELSE Precompute(self, query, d[1])

(***************************************************************************)
(* The inputs.                                                             *)
(***************************************************************************)
Vectors == {<<7, 24>>, <<-7, 24>>, <<25, 0>>}

OptVectors == {None} \cup {Some(v) : v \in Vectors}

Ages == {0, 1, 24, 48}

OptAges == {None} \cup {Some(a) : a \in Ages}

DefaultRatio == <<7, 10>>

DefaultDecay == <<9, 5>>

DiverseConfigs ==
    [cls : {"DiverseRanker"}, lambda_const : {<<3, 10>>, <<1, 2>>},
     threshold : {NegInf, Zero},
     distance : {"EUCLIDEAN", "COSINE", "DOT_PRODUCT"}]

TimeDecayConfigs == [cls : {"TimeDecayRanker"}, decay_rate : {DefaultDecay, One}]

KeywordConfigs == [cls : {"KeywordBoost"}, title_content_ratio : {DefaultRatio}]

VectorConfigs == [cls : {"VectorBoost"}, title_content_ratio : {DefaultRatio}]

HybridConfigs ==
    [cls : {"HybridRanker"}, decay_rate : {DefaultDecay, One},
     title_content_ratio : {DefaultRatio}]

RemoteConfigs == [cls : {"CrossEncoderClient", "CohereClient"}, top_k : {0, 2}]

\* The lists of at most MaxDocs Records whose fields are drawn from pool (a
\* set of Records with id 0); the Record at 0-based position i gets id i.
Batches(pool) ==
    UNION {{[i \in 1..n |-> [b[i] EXCEPT !.id = i - 1, !.text = i - 1]] :
                b \in [1..n -> pool]} : n \in 0..MaxDocs}

VectorPool == {[Record(0) EXCEPT !.vector = v] : v \in OptVectors}

TimePool ==
    {[Record(0) EXCEPT !.updated_at = a] : a \in OptAges}
    \cup {[Record(0) EXCEPT !.updated_at = Some(a), !.score = 2] : a \in {0, 1}}

KeywordPool ==
    {[Record(0) EXCEPT !.title_bm25 = t, !.content_bm25 = c, !.boost = b] :
        t \in {0, 1}, c \in {1, 2}, b \in {1, 2}}

SimPool ==
    {[Record(0) EXCEPT !.title_sim = t, !.vector_sim = c, !.boost = b] :
        t \in {0, 1}, c \in {1, 2}, b \in {1, 2}}

HybridPool ==
    {[Record(0) EXCEPT !.updated_at = a, !.title_sim = t, !.vector_sim = c] :
        a \in {None, Some(1)}, t \in {0, 1}, c \in {1, 2}}

PlainPool == {Record(0)}

MixedPool ==
    {Record(0)}
    \cup {[Record(0) EXCEPT !.vector = Some(v), !.updated_at = Some(0)] :
             v \in {<<7, 24>>, <<25, 0>>}}

PipelineConfigs ==
    {[cls |-> "DiverseRanker", lambda_const |-> <<1, 2>>, threshold |-> Zero,
      distance |-> "COSINE"],
     [cls |-> "DiverseRanker", lambda_const |-> <<3, 10>>, threshold |-> NegInf,
      distance |-> "EUCLIDEAN"],
     [cls |-> "TimeDecayRanker", decay_rate |-> DefaultDecay],
     [cls |-> "KeywordBoost", title_content_ratio |-> DefaultRatio],
     [cls |-> "HybridRanker", decay_rate |-> DefaultDecay,
      title_content_ratio |-> DefaultRatio],
     [cls |-> "CrossEncoderClient", top_k |-> 0]}

\* What a remote backend can answer for the documents d: a failure, or one
\* score per document.
Responses(d, error) ==
    {Raise(error)} \cup
    {Return(s) : s \in [1..(IF d = None THEN 0 ELSE Len(d[1])) ->
                            {Plain(Zero), Plain(One)}]}

(***************************************************************************)
(* The state: one call of a strategy's rank (entry = "ranker") or of       *)
(* ReRanker.rank (entry = "reranker") by a caller.                         *)
(***************************************************************************)
VARIABLES
    config,      \* the constructor arguments of each stage
    steps,       \* ReRanker.steps: the strategy objects (one for a direct call)
    entry,       \* "ranker" or "reranker"
    query,       \* the caller's query
    docs,        \* the caller's documents
    asText,      \* the caller passed plain strings (the Records' texts)
    pc,          \* "call", "stage", "mmr" or "done"
    k,           \* the stage running, a position of steps
    q,           \* the query handed to the stages
    cur,         \* the local `docs` of rank_records
    unwrap,      \* ReRanker.rank took its plain-text branch
    candidates,  \* DiverseRanker.rank: candidates
    selected,    \* DiverseRanker.rank: selected
    mmrs,        \* DiverseRanker.rank: the value of mmr in each iteration
    calls,       \* the strategy calls made so far
    evals,       \* per-document scores and distances computed so far
    outcome,     \* what the call returned or raised
    prev         \* the outcome of the call before the threshold was disabled

vars ==
    <<config, steps, entry, query, docs, asText, pc, k, q, cur, unwrap,
      candidates, selected, mmrs, calls, evals, outcome, prev>>

Fresh ==
    /\ pc = "call"
    /\ k = 1
    /\ q = query
    /\ cur = None
    /\ unwrap = FALSE
    /\ candidates = <<>>
    /\ selected = <<>>
    /\ mmrs = <<>>
    /\ calls = <<>>
    /\ evals = 0
    /\ outcome = Pending
    /\ prev = None

\* A direct call of one strategy.
InitRanker ==
    /\ entry = "ranker"
    /\ asText = FALSE
    /\ \/ /\ config \in {<<c>> : c \in DiverseConfigs}
          /\ docs \in Batches(VectorPool)
          /\ query \in {[Record(0) EXCEPT !.vector = v] :
                          v \in {None, Some(<<7, 24>>), Some(<<25, 0>>)}}
       \/ /\ config \in {<<c>> : c \in TimeDecayConfigs}
          /\ docs \in Batches(TimePool)
          /\ query = Record(0)
       \/ /\ config \in {<<c>> : c \in KeywordConfigs}
          /\ docs \in Batches(KeywordPool)
          /\ query = Record(0)
       \/ /\ config \in {<<c>> : c \in VectorConfigs}
          /\ docs \in Batches(SimPool)
          /\ query = Record(0)
       \/ /\ config \in {<<c>> : c \in HybridConfigs}
          /\ docs \in Batches(HybridPool)
          /\ query = Record(0)
       \/ /\ config \in {<<c>> : c \in RemoteConfigs}
          /\ docs \in Batches(PlainPool)
          /\ query = Record(0)

\* A call of a pipeline of one or two stages.
InitReRanker ==
    /\ entry = "reranker"
    /\ config \in {<<c>> : c \in PipelineConfigs}
                  \cup {<<a, b>> : a \in PipelineConfigs, b \in PipelineConfigs}
    /\ query \in {Record(0), [Record(0) EXCEPT !.vector = Some(<<7, 24>>)]}
    /\ \/ asText = FALSE /\ docs \in Batches(MixedPool)
       \/ asText = TRUE /\ docs \in Batches(PlainPool)

Init ==
    /\ InitRanker \/ InitReRanker
    /\ steps = [i \in 1..Len(config) |-> Construct(config[i])]
    /\ Fresh

(***************************************************************************)
(* The entry points.                                                       *)
(***************************************************************************)
\* The caller calls steps[1].rank(query, docs).
RankerCall ==
    /\ pc = "call"
    /\ entry = "ranker"
    /\ pc' = "stage"
    /\ k' = 1
    /\ q' = query
    /\ cur' = Some(docs)
    /\ unwrap' = FALSE
    /\ UNCHANGED <<config, steps, entry, query, docs, asText, candidates,
                   selected, mmrs, calls, evals, outcome, prev>>

\* [Record(id=i, text=doc) for (i, doc) in enumerate(docs)]
WrapTexts(list) == [i \in 1..Len(list) |-> [Record(i - 1) EXCEPT !.text = list[i].text]]

\* ReRanker.rank up to the call of rank_records: Records go through as they
\* are; anything else (plain strings, an empty list) is wrapped into Records.
ReRankerRank ==
    /\ pc = "call"
    /\ entry = "reranker"
    /\ pc' = "stage"
    /\ k' = 1
    /\ IF ~asText /\ docs # <<>>
       THEN q' = query /\ cur' = Some(docs) /\ unwrap' = FALSE
       ELSE q' = Record(0) /\ cur' = Some(WrapTexts(docs)) /\ unwrap' = TRUE
    /\ UNCHANGED <<config, steps, entry, query, docs, asText, candidates,
                   selected, mmrs, calls, evals, outcome, prev>>

\* [result.text for result in results]
Texts(results) ==
    IF results = None THEN Raise("TypeError")
    ELSE Return(Some([i \in 1..Len(results[1]) |-> results[1][i].text]))

\* What the caller gets once the last stage has returned value.
Returned(value) == IF unwrap THEN Texts(value) ELSE Return(value)

\* A variant of StageEnds that hands every stage the first stage's input.
StageEndsKeepsInput(res) ==
    /\ calls' = Append(calls, [ranker |-> steps[k], input |-> cur,
                               scored |-> res.scored, out |-> res.out])
    /\ evals' = evals + res.evals
    /\ IF res.out.kind = "raise"
       THEN pc' = "done" /\ outcome' = res.out /\ UNCHANGED <<k, cur>>
       ELSE IF k < Len(steps)
       THEN pc' = "stage" /\ k' = k + 1 /\ UNCHANGED <<cur, outcome>>
       ELSE pc' = "done" /\ outcome' = Returned(res.out.value)
            /\ UNCHANGED <<k, cur>>
    /\ UNCHANGED <<config, steps, entry, query, docs, asText, q, unwrap, prev>>

\* A variant of StageEnds that skips a failing stage and goes on with the
\* list that stage was given.
StageEndsSkipsFailure(res) ==
    /\ calls' = Append(calls, [ranker |-> steps[k], input |-> cur,
                               scored |-> res.scored, out |-> res.out])
    /\ evals' = evals + res.evals
    /\ LET value == IF res.out.kind = "raise" THEN cur ELSE res.out.value
       IN  IF k < Len(steps)
           THEN pc' = "stage" /\ k' = k + 1 /\ cur' = value /\ UNCHANGED outcome
           ELSE pc' = "done" /\ outcome' = Returned(value) /\ UNCHANGED <<k, cur>>
    /\ UNCHANGED <<config, steps, entry, query, docs, asText, q, unwrap, prev>>

\* The end of the call steps[k].rank(q, cur) with result res: an error ends
\* the whole call; a value goes to the next stage (docs = step.rank(query,
\* docs)) or, after the last stage, back to the caller.
StageEnds(res) ==
    /\ calls' = Append(calls, [ranker |-> steps[k], input |-> cur,
                               scored |-> res.scored, out |-> res.out])
    /\ evals' = evals + res.evals
    /\ IF res.out.kind = "raise"
       THEN pc' = "done" /\ outcome' = res.out /\ UNCHANGED <<k, cur>>
       ELSE IF k < Len(steps)
       THEN pc' = "stage" /\ k' = k + 1 /\ cur' = res.out.value
            /\ UNCHANGED outcome
       ELSE pc' = "done" /\ outcome' = Returned(res.out.value)
            /\ UNCHANGED <<k, cur>>
    /\ UNCHANGED <<config, steps, entry, query, docs, asText, q, unwrap, prev>>

(***************************************************************************)
(* The stages.                                                             *)
(***************************************************************************)
TimeDecayStage ==
    /\ pc = "stage"
    /\ steps[k].kind = "TimeDecayRanker"
    /\ StageEnds(TimeDecayRank(steps[k], q, cur))
    /\ UNCHANGED <<candidates, selected, mmrs>>

KeywordBoostStage ==
    /\ pc = "stage"
    /\ steps[k].kind = "KeywordBoost"
    /\ StageEnds(KeywordBoostRank(steps[k], q, cur))
    /\ UNCHANGED <<candidates, selected, mmrs>>

VectorBoostStage ==
    /\ pc = "stage"
    /\ steps[k].kind = "VectorBoost"
    /\ StageEnds(VectorBoostRank(steps[k], q, cur))
    /\ UNCHANGED <<candidates, selected, mmrs>>

HybridStage ==
    /\ pc = "stage"
    /\ steps[k].kind = "HybridRanker"
    /\ StageEnds(HybridRank(steps[k], q, cur))
    /\ UNCHANGED <<candidates, selected, mmrs>>

CrossEncoderStage ==
    /\ pc = "stage"
    /\ steps[k].kind = "CrossEncoderClient"
    /\ \E resp \in Responses(cur, "HTTPStatusError") :
          StageEnds(CrossEncoderRank(steps[k], q, cur, resp))
    /\ UNCHANGED <<candidates, selected, mmrs>>

CohereStage ==
    /\ pc = "stage"
    /\ steps[k].kind = "CohereClient"
    /\ \E resp \in Responses(cur, "CohereError") :
          StageEnds(CohereRank(steps[k], q, cur, resp))
    /\ UNCHANGED <<candidates, selected, mmrs>>

DiverseStage ==
    /\ pc = "stage"
    /\ steps[k].kind = "DiverseRanker"
    /\ LET res == DiverseBegin(steps[k], q, cur)
       IN  IF res.out.kind = "raise"
           THEN StageEnds(res) /\ UNCHANGED <<candidates, selected, mmrs>>
           ELSE /\ pc' = "mmr"
                /\ candidates' = [i \in 1..Len(cur[1]) |-> i]
                /\ selected' = <<>>
                /\ mmrs' = <<>>
                /\ evals' = evals + res.evals
                /\ UNCHANGED <<config, steps, entry, query, docs, asText, k, q,
                               cur, unwrap, calls, outcome, prev>>

\* One iteration of the while loop that selects a candidate.
DiverseSelect ==
    /\ pc = "mmr"
    /\ candidates # <<>>
    /\ LET scores == MMRScores(steps[k], q, cur[1], candidates, selected)
           mmr == RatMax(scores)
           max_idx == MaxIdx(scores)
       IN  /\ ~StopsEarly(mmr, steps[k].threshold)
           /\ mmrs' = Append(mmrs, mmr)
           /\ selected' = Append(selected, candidates[max_idx])
           /\ candidates' = PopAt(candidates, max_idx)
    /\ UNCHANGED <<config, steps, entry, query, docs, asText, pc, k, q, cur,
                   unwrap, calls, evals, outcome, prev>>

\* The iteration that breaks out of the loop, and the return.
DiverseBreak ==
    /\ pc = "mmr"
    /\ candidates # <<>>
    /\ LET scores == MMRScores(steps[k], q, cur[1], candidates, selected)
           mmr == RatMax(scores)
       IN  /\ StopsEarly(mmr, steps[k].threshold)
           /\ mmrs' = Append(mmrs, mmr)
    /\ StageEnds(Result(Return(Some([i \in 1..Len(selected) |-> cur[1][selected[i]]])),
                        Pending, 0))
    /\ UNCHANGED <<candidates, selected>>

\* The loop ends with no candidates left, and the return.
DiverseReturn ==
    /\ pc = "mmr"
    /\ candidates = <<>>
    /\ StageEnds(Result(Return(Some([i \in 1..Len(selected) |-> cur[1][selected[i]]])),
                        Pending, 0))
    /\ UNCHANGED <<candidates, selected, mmrs>>

\* The caller of a DiverseRanker disables the threshold and ranks the same
\* documents again (ranker.threshold = -float("inf"); ranker.rank(...)).
DisableThreshold ==
    /\ pc = "done"
    /\ entry = "ranker"
    /\ steps[1].kind = "DiverseRanker"
    /\ outcome.kind = "return"
    /\ prev = None
    /\ prev' = Some([outcome |-> outcome, selected |-> selected, mmrs |-> mmrs,
                     threshold |-> steps[1].threshold])
    /\ steps' = [steps EXCEPT ![1].threshold = NegInf]
    /\ pc' = "call"
    /\ candidates' = <<>>
    /\ selected' = <<>>
    /\ mmrs' = <<>>
    /\ calls' = <<>>
    /\ evals' = 0
    /\ outcome' = Pending
    /\ cur' = None
    /\ UNCHANGED <<config, entry, query, docs, asText, k, q, unwrap>>

Next ==
    \/ RankerCall
    \/ ReRankerRank
    \/ TimeDecayStage
    \/ KeywordBoostStage
    \/ VectorBoostStage
    \/ HybridStage
    \/ CrossEncoderStage
    \/ CohereStage
    \/ DiverseStage
    \/ DiverseSelect
    \/ DiverseBreak
    \/ DiverseReturn
    \/ DisableThreshold

Spec == Init /\ [][Next]_vars

(***************************************************************************)
(* What the claims speak of.                                               *)
(***************************************************************************)
Direct(kind) == entry = "ranker" /\ steps[1].kind = kind

ScoreBased ==
    {"TimeDecayRanker", "KeywordBoost", "VectorBoost", "HybridRanker",
     "CrossEncoderClient", "CohereClient"}

Remote == {"CrossEncoderClient", "CohereClient"}

AllVectors == query.vector # None /\ \A i \in 1..Len(docs) : docs[i].vector # None

AllTimed == \A i \in 1..Len(docs) : docs[i].updated_at # None

\* The documents carry the signal the strategy called directly needs.
SignalsPresent ==
    /\ steps[1].kind = "DiverseRanker" => AllVectors
    /\ steps[1].kind \in {"TimeDecayRanker", "HybridRanker"} => AllTimed

\* The strategy called directly is configured to keep every document.
NoTruncation ==
    /\ steps[1].kind \in Remote => steps[1].top_k = 0
    /\ steps[1].kind = "DiverseRanker" => steps[1].threshold = NegInf

RECURSIVE IPow(_, _)
IPow(b, n) == IF n = 0 THEN 1 ELSE b * IPow(b, n - 1)

\* x < y for two non-negative scores c / b^e with the same exponent e = p/q:
\* compare the q-th powers.
ValLt(x, y) ==
    LET e == IF x.b = 1 THEN y.e ELSE x.e
    IN  IPow(x.c[1], e[2]) * IPow(y.c[2], e[2]) * IPow(y.b, e[1])
            < IPow(y.c[1], e[2]) * IPow(x.c[2], e[2]) * IPow(x.b, e[1])

\* The position a stable descending sort by scores gives the element at i.
SortedPosition(scores, i) ==
    1 + Cardinality({j \in 1..Len(scores) :
                        \/ ValLt(scores[i], scores[j])
                        \/ ~ValLt(scores[j], scores[i]) /\ j < i})

StableSortDescending(list, scores) ==
    [r \in 1..Len(list) |->
        list[CHOOSE i \in 1..Len(list) : SortedPosition(scores, i) = r]]

IsPrefix(s, t) == Len(s) <= Len(t) /\ s = SubSeq(t, 1, Len(s))

Elements(s) == {s[i] : i \in 1..Len(s)}

(***************************************************************************)
(* C1.  For every strategy and every non-empty batch that carries the      *)
(* strategy's signal, rank returns a list of at most len(docs) documents,  *)
(* and of exactly len(docs) when no truncation is configured.  (A failed   *)
(* backend call of a remote strategy is left out.)  The code does not do   *)
(* this: the score-based strategies raise TypeError from docs.sort.        *)
(***************************************************************************)
C1_LengthContract ==
    (/\ pc = "done"
     /\ entry = "ranker"
     /\ docs # <<>>
     /\ SignalsPresent
     /\ ~(steps[1].kind \in Remote /\ calls[1].scored.kind = "raise"))
    => /\ outcome.kind = "return"
       /\ outcome.value # None
       /\ Len(outcome.value[1]) <= Len(docs)
       /\ NoTruncation => Len(outcome.value[1]) = Len(docs)

(***************************************************************************)
(* C2.  For every score-based strategy, rank returns the input documents   *)
(* in stable descending order of the score at each document's input        *)
(* position (cut to the length returned).  The code does not do this.      *)
(***************************************************************************)
C2_StableDescending ==
    (/\ pc = "done"
     /\ entry = "ranker"
     /\ steps[1].kind \in ScoreBased
     /\ docs # <<>>
     /\ calls[1].scored.kind = "return")
    => /\ outcome.kind = "return"
       /\ outcome.value # None
       /\ IsPrefix(outcome.value[1],
                   StableSortDescending(docs, calls[1].scored.value))

(***************************************************************************)
(* C3.  Pipeline composition: on a query Record and a non-empty list of    *)
(* Records, the stages of a ReRanker are called in list order with the     *)
(* caller's query, the first on the caller's documents and each later one  *)
(* on the list the stage before it returned, and the call ends with what   *)
(* the last stage called returned or raised: for stages [A, B], with       *)
(* B.rank(q, A.rank(q, docs)).                                             *)
(***************************************************************************)
C3_Composition ==
    (entry = "reranker" /\ ~asText /\ docs # <<>>)
    => /\ Len(calls) <= Len(steps)
       /\ \A i \in 1..Len(calls) :
            /\ calls[i].ranker = steps[i]
            /\ calls[i].input = IF i = 1 THEN Some(docs) ELSE calls[i - 1].out.value
            /\ i > 1 => calls[i - 1].out.kind = "return"
       /\ pc # "call" => q = query
       /\ pc = "done"
            => /\ calls # <<>>
               /\ outcome = calls[Len(calls)].out
               /\ outcome.kind = "return" => Len(calls) = Len(steps)

\* A pipeline of two stages has returned; both stages changed their input.
C3_Witness ==
    /\ pc = "done"
    /\ entry = "reranker"
    /\ ~asText
    /\ Len(steps) = 2
    /\ Len(calls) = 2
    /\ outcome.kind = "return"
    /\ calls[1].out.value # Some(docs)
    /\ calls[1].out.value[1] # <<>>
    /\ outcome.value # calls[2].input

(***************************************************************************)
(* C4.  TimeDecayRanker with decay_rate 1.8, on documents of equal score   *)
(* where document i was updated i days before document 0, returns the      *)
(* documents in the input order.  The code raises TypeError instead.       *)
(***************************************************************************)
C4_FreshestFirst ==
    (/\ pc = "done"
     /\ Direct("TimeDecayRanker")
     /\ steps[1].decay_rate = <<9, 5>>
     /\ Len(docs) >= 2
     /\ AllTimed
     /\ \A i \in 1..Len(docs) :
            /\ docs[i].score = docs[1].score
            /\ docs[i].updated_at[1] = docs[1].updated_at[1] + 24 * (i - 1))
    => outcome = Return(Some(docs))

(***************************************************************************)
(* C5.  DiverseRanker with threshold = -infinity, on a non-empty batch     *)
(* whose documents and query carry vectors, never stops early: every       *)
(* iteration selects one candidate, the loop ends after len(docs)          *)
(* selections, and rank returns every input document exactly once.         *)
(***************************************************************************)
C5_NoEarlyStop ==
    (/\ Direct("DiverseRanker")
     /\ steps[1].threshold = NegInf
     /\ docs # <<>>
     /\ AllVectors)
    => /\ pc = "mmr"
            => /\ Len(mmrs) = Len(selected)
               /\ Len(selected) + Len(candidates) = Len(docs)
       /\ pc = "done"
            => /\ outcome.kind = "return"
               /\ Len(mmrs) = Len(docs)
               /\ Len(selected) = Len(docs)
               /\ Elements(selected) = 1..Len(docs)
               /\ outcome.value = Some([i \in 1..Len(docs) |-> docs[selected[i]]])

\* Such a call has returned three documents in another order.
C5_Witness ==
    /\ pc = "done"
    /\ Direct("DiverseRanker")
    /\ steps[1].threshold = NegInf
    /\ AllVectors
    /\ Len(docs) = 3
    /\ outcome.kind = "return"
    /\ outcome.value # Some(docs)

(***************************************************************************)
(* C6.  The worked example: lambda_const = 0.5, Distance.COSINE, three     *)
(* documents A, B, C where A is near-identical to the query and to B and   *)
(* C is distant from A and B but moderately aligned with the query.  The   *)
(* first document selected is A and the second is C.  The code selects C   *)
(* first: cosine returns 1 - cos, a distance, and the loop maximises it.   *)
(***************************************************************************)
\* The cosine of the angle between two vectors.
CosineSimilarity(x, y) == Rat(dot(x, y), norm(x) * norm(y))

NearIdentical(x, y) == ~RatLt(CosineSimilarity(x, y), <<4, 5>>)

DistantFrom(x, y) == RatLt(CosineSimilarity(x, y), Zero)

ModeratelyAligned(x, y) ==
    RatLt(Zero, CosineSimilarity(x, y)) /\ RatLt(CosineSimilarity(x, y), <<1, 2>>)

WorkedExample ==
    /\ Direct("DiverseRanker")
    /\ steps[1].lambda_const = <<1, 2>>
    /\ steps[1].distance = "COSINE"
    /\ Len(docs) = 3
    /\ AllVectors
    /\ NearIdentical(docs[1].vector[1], query.vector[1])
    /\ NearIdentical(docs[1].vector[1], docs[2].vector[1])
    /\ DistantFrom(docs[3].vector[1], docs[1].vector[1])
    /\ DistantFrom(docs[3].vector[1], docs[2].vector[1])
    /\ ModeratelyAligned(docs[3].vector[1], query.vector[1])

C6_WorkedExample ==
    (WorkedExample /\ pc = "done")
    => /\ Len(selected) >= 2
       /\ selected[1] = 1
       /\ selected[2] = 3

(***************************************************************************)
(* C7.  Missing-signal fast fail: DiverseRanker.rank on a non-empty batch  *)
(* whose first document has no vector, and TimeDecayRanker.rank on one     *)
(* whose first document has no updated_at, raise ValueError with no        *)
(* distance or score computed and no document selected or returned; and    *)
(* when the first document carries the signal the call does not raise      *)
(* ValueError, whatever the other documents carry.                         *)
(***************************************************************************)
FirstLacksSignal ==
    \/ steps[1].kind = "DiverseRanker" /\ docs[1].vector = None
    \/ steps[1].kind = "TimeDecayRanker" /\ docs[1].updated_at = None

C7_FastFail ==
    (/\ entry = "ranker"
     /\ steps[1].kind \in {"DiverseRanker", "TimeDecayRanker"}
     /\ docs # <<>>)
    => IF FirstLacksSignal
       THEN /\ evals = 0
            /\ selected = <<>>
            /\ pc \in {"call", "stage", "done"}
            /\ pc = "done" => outcome = Raise("ValueError")
       ELSE pc = "done" => outcome # Raise("ValueError")

\* The call has failed on a batch whose first document lacks the vector and
\* whose second carries one.
C7_Witness ==
    /\ pc = "done"
    /\ Direct("DiverseRanker")
    /\ Len(docs) >= 2
    /\ docs[1].vector = None
    /\ docs[2].vector # None
    /\ query.vector # None
    /\ outcome = Raise("ValueError")

(***************************************************************************)
(* C8.  A failing stage ends the whole ReRanker.rank call: the call raises *)
(* that stage's error, no later stage is called, and the caller gets no    *)
(* document list.                                                          *)
(***************************************************************************)
C8_AllOrNothing ==
    entry = "reranker"
    => \A i \in 1..Len(calls) :
          calls[i].out.kind = "raise"
          => /\ i = Len(calls)
             /\ pc = "done"
             /\ outcome = calls[i].out

\* The second of two stages has failed on the list the first returned.
C8_Witness ==
    /\ pc = "done"
    /\ entry = "reranker"
    /\ Len(steps) = 2
    /\ Len(calls) = 2
    /\ calls[1].out.kind = "return"
    /\ calls[1].out.value # None
    /\ calls[1].out.value[1] # <<>>
    /\ calls[2].out.kind = "raise"
    /\ outcome.kind = "raise"

(***************************************************************************)
(* C9.  HybridRanker(decay_rate, title_content_ratio).score is the         *)
(* elementwise product of TimeDecayRanker(decay_rate).score and            *)
(* VectorBoost(title_content_ratio).score, one entry per document in       *)
(* input order; when TimeDecayRanker.score fails, it fails the same way.   *)
(***************************************************************************)
C9_HybridProduct ==
    (Direct("HybridRanker") /\ pc = "done")
    => LET decay == TimeDecayScore(TimeDecayRanker(config[1].decay_rate),
                                   query, Some(docs)).out
           vector == VectorBoostScore(VectorBoost(config[1].title_content_ratio),
                                      query, Some(docs)).out
           hybrid == calls[1].scored
       IN  IF decay.kind = "raise" THEN hybrid = decay
           ELSE /\ hybrid.kind = "return"
                /\ Len(hybrid.value) = Len(docs)
                /\ \A i \in 1..Len(docs) :
                      hybrid.value[i] = ValMul(decay.value[i], vector.value[i])

\* The score of a batch of three documents has been computed with a decay
\* rate other than the default, and its entries are not all the same.
C9_Witness ==
    /\ pc = "done"
    /\ Direct("HybridRanker")
    /\ config[1].decay_rate # <<9, 5>>
    /\ Len(docs) = 3
    /\ calls[1].scored.kind = "return"
    /\ calls[1].scored.value[1] # calls[1].scored.value[2]
    /\ calls[1].scored.value[2] # calls[1].scored.value[3]

(***************************************************************************)
(* C10.  Early stop yields a prefix: the documents DiverseRanker returns   *)
(* with threshold t are a prefix of those it returns, for the same query   *)
(* and documents, with threshold = -infinity; the prefix ends right before *)
(* the first iteration whose best MMR value is below t, and no candidate   *)
(* left at that point is in the output.                                    *)
(***************************************************************************)
\* The first iteration whose best MMR value is below t (one past the last
\* iteration when there is none).
RECURSIVE FirstBelow(_, _)
FirstBelow(values, t) ==
    IF values = <<>> \/ RatLt(values[1], t) THEN 1
    ELSE 1 + FirstBelow(Tail(values), t)

C10_EarlyStopPrefix ==
    (prev # None /\ pc = "done")
    => LET stop == FirstBelow(mmrs, prev[1].threshold)
       IN  /\ outcome.kind = "return"
           /\ prev[1].selected = SubSeq(selected, 1, stop - 1)
           /\ prev[1].outcome.value[1] = SubSeq(outcome.value[1], 1, stop - 1)
           /\ \A c \in 1..Len(docs) :
                 c \notin Elements(prev[1].selected)
                 => docs[c] \notin Elements(prev[1].outcome.value[1])

\* A call with a threshold has returned some, and not all, of the documents.
C10_Witness ==
    /\ prev # None
    /\ pc = "done"
    /\ prev[1].selected # <<>>
    /\ Len(prev[1].selected) < Len(selected)

====
